---- MODULE Spec2Model ----
(***************************************************************************)
(* A model of mindinsight's lineage Querier                                *)
(* (mindinsight/lineagemgr/querier/querier.py): ingestion of summary logs  *)
(* with tolerated per-path failures, the retry pass run by every query,    *)
(* the filter / sort / paginate engine and the dataset-mark grouping.      *)
(*                                                                         *)
(* Encodings.  A log path is a pair <<dir, file>>, so os.path.dirname is   *)
(* the first component.  Python's None is the number 0; every other value  *)
(* of a field and every dataset graph is a positive number (graphs are     *)
(* only ever compared for equality).  A Python str that the code converts  *)
(* to and from int (the dataset mark) is the sequence of its decimal       *)
(* digits, compared lexicographically as Python compares str.  A dict is   *)
(* the sequence of its items in insertion order.                           *)
(***************************************************************************)
EXTENDS Integers, Sequences, FiniteSets, TLC

VARIABLES
    fs,                 \* the summary logs on disk: path -> what parsing it yields
    state,              \* "new" | "ready" | "failed": the Querier's construction
    lineage_objects,    \* self._lineage_objects
    index_map,          \* self._index_map
    parse_failed_paths, \* self._parse_failed_paths
    size,               \* self._size
    supplied,           \* the paths the constructor was given, in their order
    call                \* the last call of the API: its arguments and its outcome

vars == <<fs, state, lineage_objects, index_map, parse_failed_paths, size,
          supplied, call>>

None == 0

----------------------------------------------------------------------------
(* Bounds *)

\* longest list of paths given to the constructor under Spec
MaxPaths == 3
\* queries are made while the Querier holds at most this many more records
\* and failed paths than paths were given to its constructor
MaxExtra == 1
\* the logs of SpecMarks, one per directory
MaxMarkLogs == 11
\* how many of them hold no dataset graph or the graph of an earlier log
MaxRepeats == 1
\* the logs of SpecFilter and of SpecSort, one per directory
MaxFilterLogs == 2
MaxSortLogs == 3
\* the logs of SpecPage, one per directory
MaxPageLogs == 11
\* the values of a field are None and 1..MaxValue
MaxValue == 2

----------------------------------------------------------------------------
(* Sequences *)

RECURSIVE SeqToSet(_)
SeqToSet(s) == IF s = <<>> THEN {} ELSE {Head(s)} \cup SeqToSet(Tail(s))

SeqsUpTo(S, n) == UNION {[1..k -> S] : k \in 0..n}

Reverse(s) == [i \in 1..Len(s) |-> s[Len(s) + 1 - i]]

----------------------------------------------------------------------------
(* Python str of decimal digits *)

RECURSIVE str(_)
str(n) == IF n < 10 THEN <<n>> ELSE str(n \div 10) \o <<n % 10>>

RECURSIVE int(_)
int(s) == IF Len(s) = 0 THEN 0
          ELSE 10 * int(SubSeq(s, 1, Len(s) - 1)) + s[Len(s)]

\* a < b for two str, as Python orders them: by the first differing
\* character, a proper prefix first
RECURSIVE StrLess(_, _)
StrLess(a, b) ==
    IF b = <<>> THEN FALSE
    ELSE IF a = <<>> THEN TRUE
    ELSE IF Head(a) # Head(b) THEN Head(a) < Head(b)
    ELSE StrLess(Tail(a), Tail(b))

\* max() over a non-empty sequence of str
RECURSIVE StrMax(_)
StrMax(keys) ==
    IF Len(keys) = 1 THEN keys[1]
    ELSE LET m == StrMax(Tail(keys))
         IN  IF StrLess(keys[1], m) THEN m ELSE keys[1]

----------------------------------------------------------------------------
(* The summary logs and what parsing one yields *)

OK == "ok"
RetryableErrors == {"LineageSummaryAnalyzeException",
                    "LineageEventNotExistException",
                    "LineageEventFieldNotExistException"}
OtherErrors == {"OtherError"}
Statuses == {OK} \cup RetryableErrors \cup OtherErrors

dirname(log_path) == log_path[1]

\* LineageObj(log_dir, train_lineage, evaluation_lineage, dataset_graph):
\* dataset_mark starts unset; log_path is not a field of the object, it
\* records which path the object was parsed from
LineageObj(log_dir, log_path, log) ==
    [summary_dir   |-> log_dir,
     dataset_graph |-> log.graph,
     dataset_mark  |-> <<>>,
     epoch         |-> log.epoch,
     accuracy      |-> log.accuracy,
     log_path      |-> log_path]

----------------------------------------------------------------------------
(* Querier._add_dataset_mark *)

GroupKeys(group) == [i \in 1..Len(group) |-> group[i].mark]

\* compares g with the graph of the newest item only
FindGroupNewestOnly(group, g, i) ==
    IF group[Len(group)].graph = g THEN Len(group) ELSE 0

\* the first item of marked_dataset_group whose graph equals g, 0 if none
RECURSIVE FindGroup(_, _, _)
FindGroup(group, g, i) ==
    IF i > Len(group) THEN 0
    ELSE IF group[i].graph = g THEN i
    ELSE FindGroup(group, g, i + 1)

\* dict.update({mark: g}): replace the value of an existing key in place,
\* else append a new item
RECURSIVE KeyIndex(_, _, _)
KeyIndex(group, mark, i) ==
    IF i > Len(group) THEN 0
    ELSE IF group[i].mark = mark THEN i
    ELSE KeyIndex(group, mark, i + 1)

DictUpdate(group, mark, g) ==
    LET k == KeyIndex(group, mark, 1)
    IN  IF k = 0 THEN Append(group, [mark |-> mark, graph |-> g])
        ELSE [group EXCEPT ![k] = [mark |-> mark, graph |-> g]]

NewMark(group) == str(int(StrMax(GroupKeys(group))) + 1)

\* the records are marked from the newest to the oldest
RECURSIVE MarkLoopNewestFirst(_, _, _)
MarkLoopNewestFirst(objs, i, group) ==
    IF i > Len(objs) THEN objs
    ELSE LET k     == Len(objs) + 1 - i
             g     == objs[k].dataset_graph
             found == FindGroup(group, g, 1)
             mark  == IF found # 0 THEN group[found].mark ELSE NewMark(group)
             grp2  == IF found # 0 THEN group ELSE DictUpdate(group, mark, g)
         IN  MarkLoopNewestFirst([objs EXCEPT ![k].dataset_mark = mark],
                                 i + 1, grp2)

RECURSIVE MarkLoop(_, _, _)
MarkLoop(objs, i, group) ==
    IF i > Len(objs) THEN objs
    ELSE LET g     == objs[i].dataset_graph
             found == FindGroup(group, g, 1)
             mark  == IF found # 0 THEN group[found].mark ELSE NewMark(group)
             grp2  == IF found # 0 THEN group ELSE DictUpdate(group, mark, g)
         IN  MarkLoop([objs EXCEPT ![i].dataset_mark = mark], i + 1, grp2)

AddDatasetMark(objs) ==
    MarkLoop(objs, 1, <<[mark |-> str(1), graph |-> None]>>)

----------------------------------------------------------------------------
(* Querier._parse_summary_log *)

\* the directory is put into the lookup map before the log is parsed
ParseSummaryLogIndexesFirst(q0, files, log_path, index, is_save_fail_path) ==
    LET log_dir == dirname(log_path)
        log     == files[log_path]
        q       == [q0 EXCEPT !.attempted =
                        Append(@, [path |-> log_path, status |-> log.status]),
                               !.index_map = (log_dir :> index) @@ @]
    IN  IF log.status = OK
        THEN [q   |-> [q EXCEPT
                         !.lineage_objects =
                             AddDatasetMark(
                                 Append(@, LineageObj(log_dir, log_path, log)))],
              ret |-> TRUE,
              exc |-> ""]
        ELSE IF log.status \in RetryableErrors
        THEN [q   |-> IF is_save_fail_path
                      THEN [q EXCEPT !.parse_failed_paths = Append(@, log_path)]
                      ELSE q,
              ret |-> FALSE,
              exc |-> ""]
        ELSE [q |-> q, ret |-> FALSE, exc |-> log.status]

\* q is the Querier (self) with, in q.attempted, the paths the current call
\* of the API has handed to this method so far and how parsing each ended;
\* the value is the Querier afterwards, the value returned and the exception
\* that left the method ("" when none did)
ParseSummaryLog(q0, files, log_path, index, is_save_fail_path) ==
    LET log_dir == dirname(log_path)
        log     == files[log_path]
        q       == [q0 EXCEPT !.attempted =
                        Append(@, [path |-> log_path, status |-> log.status])]
    IN  IF log.status = OK
        THEN [q   |-> [q EXCEPT
                         !.lineage_objects =
                             AddDatasetMark(
                                 Append(@, LineageObj(log_dir, log_path, log))),
                         !.index_map = (log_dir :> index) @@ @],
              ret |-> TRUE,
              exc |-> ""]
        ELSE IF log.status \in RetryableErrors
        THEN [q   |-> IF is_save_fail_path
                      THEN [q EXCEPT !.parse_failed_paths = Append(@, log_path)]
                      ELSE q,
              ret |-> FALSE,
              exc |-> ""]
        ELSE [q |-> q, ret |-> FALSE, exc |-> log.status]

----------------------------------------------------------------------------
(* Querier._parse_summary_logs and Querier.__init__ *)

\* the constructor's argument: a str, a list of str, or something else
StrArg(p)   == [kind |-> "str", val |-> p]
ListArg(ps) == [kind |-> "list", val |-> ps]
OtherArg    == [kind |-> "other", val |-> <<1>>]

\* `not summary_path`: the empty str and the empty list are false
Falsy(summary_path) == summary_path.val = <<>>

\* the loop over the list ends at the first path that does not parse
RECURSIVE ParseLoopUntilFailure(_, _, _, _, _)
ParseLoopUntilFailure(q, files, summary_path, i, index) ==
    IF i > Len(summary_path) THEN [q |-> q, exc |-> ""]
    ELSE LET r == ParseSummaryLog(q, files, summary_path[i], index, TRUE)
         IN  IF r.exc # "" THEN [q |-> r.q, exc |-> r.exc]
             ELSE IF ~r.ret THEN [q |-> r.q, exc |-> ""]
             ELSE ParseLoopUntilFailure(r.q, files, summary_path, i + 1,
                                        index + 1)

\* for path in summary_path: ...; index counts the successes
RECURSIVE ParseLoop(_, _, _, _, _)
ParseLoop(q, files, summary_path, i, index) ==
    IF i > Len(summary_path) THEN [q |-> q, exc |-> ""]
    ELSE LET r == ParseSummaryLog(q, files, summary_path[i], index, TRUE)
         IN  IF r.exc # "" THEN [q |-> r.q, exc |-> r.exc]
             ELSE ParseLoop(r.q, files, summary_path, i + 1,
                            IF r.ret THEN index + 1 ELSE index)

\* without the check that a record was produced
ParseSummaryLogsUnchecked(q, files, summary_path) ==
    IF Falsy(summary_path)
    THEN [q |-> q, exc |-> "LineageQuerierParamException"]
    ELSE IF summary_path.kind = "str"
    THEN LET r == ParseSummaryLog(q, files, summary_path.val, 0, TRUE)
         IN  [q |-> r.q, exc |-> r.exc]
    ELSE IF summary_path.kind = "list"
    THEN ParseLoop(q, files, summary_path.val, 1, 0)
    ELSE [q |-> q, exc |-> "LineageParamTypeError"]

ParseSummaryLogs(q, files, summary_path) ==
    IF Falsy(summary_path)
    THEN [q |-> q, exc |-> "LineageQuerierParamException"]
    ELSE LET r == IF summary_path.kind = "str"
                  THEN ParseSummaryLog(q, files, summary_path.val, 0, TRUE)
                  ELSE IF summary_path.kind = "list"
                  THEN ParseLoop(q, files, summary_path.val, 1, 0)
                  ELSE [q |-> q, exc |-> "LineageParamTypeError"]
         IN  IF r.exc # "" THEN [q |-> r.q, exc |-> r.exc]
             ELSE IF r.q.lineage_objects = <<>>
             THEN [q |-> r.q, exc |-> "LineageSummaryParseException"]
             ELSE [q |-> r.q, exc |-> ""]

EmptyQuerier ==
    [lineage_objects    |-> <<>>,
     index_map          |-> <<>>,
     parse_failed_paths |-> <<>>,
     size               |-> 0,
     attempted          |-> <<>>]

QuerierInit(files, summary_path) ==
    LET r == ParseSummaryLogs(EmptyQuerier, files, summary_path)
    IN  IF r.exc # "" THEN r
        ELSE [q   |-> [r.q EXCEPT !.size = Len(r.q.lineage_objects)],
              exc |-> ""]

----------------------------------------------------------------------------
(* Querier._parse_fail_summary_logs *)

\* the loop keeps in failed_paths every path it tried, parsed or not
RECURSIVE RetryLoopKeepsParsed(_, _, _, _, _)
RetryLoopKeepsParsed(q, files, paths, i, failed_paths) ==
    IF i > Len(paths)
    THEN [q |-> [q EXCEPT !.parse_failed_paths = failed_paths], exc |-> ""]
    ELSE LET r == ParseSummaryLog(q, files, paths[i], q.size, FALSE)
         IN  IF r.exc # "" THEN [q |-> r.q, exc |-> r.exc]
             ELSE RetryLoopKeepsParsed(
                      IF r.ret THEN [r.q EXCEPT !.size = @ + 1] ELSE r.q,
                      files, paths, i + 1, Append(failed_paths, paths[i]))

\* the loop over self._parse_failed_paths; an exception leaves the method
\* before self._parse_failed_paths is assigned
RECURSIVE RetryLoop(_, _, _, _, _)
RetryLoop(q, files, paths, i, failed_paths) ==
    IF i > Len(paths)
    THEN [q |-> [q EXCEPT !.parse_failed_paths = failed_paths], exc |-> ""]
    ELSE LET r == ParseSummaryLog(q, files, paths[i], q.size, FALSE)
         IN  IF r.exc # "" THEN [q |-> r.q, exc |-> r.exc]
             ELSE IF r.ret
             THEN RetryLoop([r.q EXCEPT !.size = @ + 1], files, paths, i + 1,
                            failed_paths)
             ELSE RetryLoop(r.q, files, paths, i + 1,
                            Append(failed_paths, paths[i]))

ParseFailSummaryLogs(q, files) ==
    IF q.parse_failed_paths # <<>>
    THEN RetryLoop(q, files, q.parse_failed_paths, 1, <<>>)
    ELSE [q |-> q, exc |-> ""]

----------------------------------------------------------------------------
(* Names: a field name or a key of the condition is the sequence of the    *)
(* pieces of the str, the prefix "metric_" being one piece                 *)

LIMIT        == <<"limit">>
OFFSET       == <<"offset">>
SORTED_NAME  == <<"sorted_name">>
SORTED_TYPE  == <<"sorted_type">>
LINEAGE_TYPE == <<"lineage_type">>

\* ConditionParam.is_condition_type
is_condition_type(value) ==
    value \in {LIMIT, OFFSET, SORTED_NAME, SORTED_TYPE, LINEAGE_TYPE}

\* ExpressionType.is_valid_exp
is_valid_exp(key) == key \in {"eq", "lt", "gt", "le", "ge", "in"}

\* the names query_model.FIELD_MAPPING holds that the model's records carry
FIELD_MAPPING == {<<"epoch">>}

startswith_metric(field_name) == field_name[1] = "metric_"

\* Querier._is_valid_field: true when the name is NOT a supported field
is_valid_field(field_name) ==
    field_name \notin FIELD_MAPPING /\ ~startswith_metric(field_name)

\* LineageObj.get_value_by_key, for a supported name: the value or None
get_value_by_key(obj, key) ==
    IF key = <<"epoch">> THEN obj.epoch
    ELSE IF key = <<"metric_", "accuracy">> THEN obj.accuracy
    ELSE None

----------------------------------------------------------------------------
(* ExpressionType.is_match *)

\* an expected value is a number, None or a list of them; .v holds the
\* elements of a list and, in a sequence of one, a value that is no list
Scalar(v) == [list |-> FALSE, v |-> <<v>>]
List(vs)  == [list |-> TRUE, v |-> vs]

\* a value that is None matches nothing, whatever the kind
IsMatchNoneNeverMatches(except_key, except_value, actual_value) ==
    IF actual_value = None
    THEN [state |-> FALSE, exc |-> ""]
    ELSE IF except_key = "in"
    THEN IF except_value.list
         THEN [state |-> actual_value \in SeqToSet(except_value.v), exc |-> ""]
         ELSE [state |-> FALSE, exc |-> "TypeError"]
    ELSE IF except_key = "eq"
    THEN [state |-> ~except_value.list /\ actual_value = except_value.v[1],
          exc   |-> ""]
    ELSE IF except_value.list \/ except_value.v[1] = None
    THEN [state |-> FALSE, exc |-> "TypeError"]
    ELSE [state |-> CASE except_key = "lt" -> actual_value < except_value.v[1]
                      [] except_key = "gt" -> actual_value > except_value.v[1]
                      [] except_key = "le" -> actual_value <= except_value.v[1]
                      [] except_key = "ge" -> actual_value >= except_value.v[1],
          exc   |-> ""]

\* the value is [state, exc]: exc is the exception operator.lt & co. raise
\* on operands Python does not order (None, a list and a number)
is_match(except_key, except_value, actual_value) ==
    IF actual_value = None /\ except_key \in {"lt", "gt", "le", "ge"}
    THEN [state |-> FALSE, exc |-> ""]
    ELSE IF except_key = "in"
    THEN IF except_value.list
         THEN [state |-> actual_value \in SeqToSet(except_value.v), exc |-> ""]
         ELSE [state |-> FALSE, exc |-> "TypeError"]
    ELSE IF except_key = "eq"
    THEN [state |-> ~except_value.list /\ actual_value = except_value.v[1],
          exc   |-> ""]
    ELSE IF except_value.list \/ except_value.v[1] = None
    THEN [state |-> FALSE, exc |-> "TypeError"]
    ELSE [state |-> CASE except_key = "lt" -> actual_value < except_value.v[1]
                      [] except_key = "gt" -> actual_value > except_value.v[1]
                      [] except_key = "le" -> actual_value <= except_value.v[1]
                      [] except_key = "ge" -> actual_value >= except_value.v[1],
          exc   |-> ""]

----------------------------------------------------------------------------
(* Querier.filter_summary_lineage *)

\* an item of the condition: under a field name the dict of its expressions
\* (exps), under a control key an int (n) or a str (s, a name)
FieldItem(k, exps) == [key |-> k, value |-> [exps |-> exps, n |-> 0, s |-> <<>>]]
IntItem(k, n)      == [key |-> k, value |-> [exps |-> <<>>, n |-> n, s |-> <<>>]]
StrItem(k, s)      == [key |-> k, value |-> [exps |-> <<>>, n |-> 0, s |-> s]]

RECURSIVE HasKey(_, _)
HasKey(condition, key) ==
    condition # <<>> /\ (Head(condition).key = key \/ HasKey(Tail(condition), key))

\* condition[key], for a key the condition has
RECURSIVE Lookup(_, _)
Lookup(condition, key) ==
    IF Head(condition).key = key THEN Head(condition).value
    ELSE Lookup(Tail(condition), key)

\* for exp_key, exp_value in condition_value.items(): ...
\* "TRUE": every expression matched; "FALSE": return False
RECURSIVE ExpLoop(_, _, _)
ExpLoop(exps, j, value) ==
    IF j > Len(exps) THEN [ret |-> TRUE, exc |-> ""]
    ELSE IF ~is_valid_exp(exps[j].key)
    THEN [ret |-> FALSE, exc |-> "LineageQuerierParamException"]
    ELSE LET m == is_match(exps[j].key, exps[j].value, value)
         IN  IF m.exc # "" THEN [ret |-> FALSE, exc |-> m.exc]
             ELSE IF ~m.state THEN [ret |-> FALSE, exc |-> ""]
             ELSE ExpLoop(exps, j + 1, value)

\* the record passes as soon as one field of the condition matches
RECURSIVE FilterLoopFirstField(_, _, _)
FilterLoopFirstField(condition, i, lineage_obj) ==
    IF i > Len(condition) THEN [ret |-> TRUE, exc |-> ""]
    ELSE IF is_condition_type(condition[i].key)
    THEN FilterLoopFirstField(condition, i + 1, lineage_obj)
    ELSE IF is_valid_field(condition[i].key)
    THEN [ret |-> FALSE, exc |-> "LineageQuerierParamException"]
    ELSE LET value == get_value_by_key(lineage_obj, condition[i].key)
         IN  ExpLoop(condition[i].value.exps, 1, value)

\* _filter(lineage_obj): for condition_key, condition_value in condition.items()
RECURSIVE FilterLoop(_, _, _)
FilterLoop(condition, i, lineage_obj) ==
    IF i > Len(condition) THEN [ret |-> TRUE, exc |-> ""]
    ELSE IF is_condition_type(condition[i].key)
    THEN FilterLoop(condition, i + 1, lineage_obj)
    ELSE IF is_valid_field(condition[i].key)
    THEN [ret |-> FALSE, exc |-> "LineageQuerierParamException"]
    ELSE LET value == get_value_by_key(lineage_obj, condition[i].key)
             r     == ExpLoop(condition[i].value.exps, 1, value)
         IN  IF r.exc # "" \/ ~r.ret THEN r
             ELSE FilterLoop(condition, i + 1, lineage_obj)

\* list(filter(_filter, self._lineage_objects))
RECURSIVE FilterObjects(_, _, _, _)
FilterObjects(condition, objs, i, kept) ==
    IF i > Len(objs) THEN [result |-> kept, exc |-> ""]
    ELSE LET r == FilterLoop(condition, 1, objs[i])
         IN  IF r.exc # "" THEN [result |-> <<>>, exc |-> r.exc]
             ELSE FilterObjects(condition, objs, i + 1,
                                IF r.ret THEN Append(kept, objs[i]) ELSE kept)

\* a null first value sorts first even when the second is null too
CmpNullAlwaysFirst(sorted_name, obj1, obj2) ==
    LET value1 == get_value_by_key(obj1, sorted_name)
        value2 == get_value_by_key(obj2, sorted_name)
    IN  IF value1 = None THEN -1
        ELSE IF value2 = None THEN 1
        ELSE (IF value1 > value2 THEN 1 ELSE 0) - (IF value1 < value2 THEN 1 ELSE 0)

\* _cmp(obj1, obj2)
cmp(sorted_name, obj1, obj2) ==
    LET value1 == get_value_by_key(obj1, sorted_name)
        value2 == get_value_by_key(obj2, sorted_name)
    IN  IF value1 = None /\ value2 = None THEN 0
        ELSE IF value1 = None THEN -1
        ELSE IF value2 = None THEN 1
        ELSE (IF value1 > value2 THEN 1 ELSE 0) - (IF value1 < value2 THEN 1 ELSE 0)

\* a stable sort by cmp: x goes after the last element it is not less than
RECURSIVE InsertSorted(_, _, _)
InsertSorted(sorted_name, s, x) ==
    IF s = <<>> THEN <<x>>
    ELSE IF cmp(sorted_name, x, s[Len(s)]) >= 0 THEN Append(s, x)
    ELSE Append(InsertSorted(sorted_name, SubSeq(s, 1, Len(s) - 1), x), s[Len(s)])

RECURSIVE StableSort(_, _)
StableSort(sorted_name, s) ==
    IF s = <<>> THEN <<>>
    ELSE InsertSorted(sorted_name,
                      StableSort(sorted_name, SubSeq(s, 1, Len(s) - 1)),
                      s[Len(s)])

\* the order asked for is not looked at
SortedAscendingOnly(result, sorted_name, reverse) ==
    StableSort(sorted_name, result)

\* sort ascending, then reverse the sorted list
SortedThenReversed(result, sorted_name, reverse) ==
    IF reverse THEN Reverse(StableSort(sorted_name, result))
    ELSE StableSort(sorted_name, result)

\* sorted(result, key=functools.cmp_to_key(_cmp), reverse=reverse): with
\* reverse, CPython reverses the list, sorts it stably and reverses it again
sorted(result, sorted_name, reverse) ==
    IF reverse THEN Reverse(StableSort(sorted_name, Reverse(result)))
    ELSE StableSort(sorted_name, result)

\* s[a:b] as Python slices a list
Clamp(i, n) == IF i < 0 THEN (IF n + i < 0 THEN 0 ELSE n + i)
               ELSE IF i > n THEN n ELSE i

Slice(s, a, b) ==
    LET lo == Clamp(a, Len(s))
        hi == Clamp(b, Len(s))
    IN  IF lo < hi THEN SubSeq(s, lo + 1, hi) ELSE <<>>

\* Querier._handle_limit_and_offset
DefaultOffset == 0
DefaultLimit == 10

\* the defaults apply also when neither key is given
HandleAlwaysSlices(condition, result) ==
    LET offset == IF HasKey(condition, OFFSET) THEN Lookup(condition, OFFSET).n
                  ELSE DefaultOffset
        limit  == IF HasKey(condition, LIMIT) THEN Lookup(condition, LIMIT).n
                  ELSE DefaultLimit
    IN  Slice(result, offset * limit, limit * (offset + 1))

\* offset counts records, not pages
HandleOffsetAsPosition(condition, result) ==
    LET offset == IF HasKey(condition, OFFSET) THEN Lookup(condition, OFFSET).n
                  ELSE DefaultOffset
        limit  == IF HasKey(condition, LIMIT) THEN Lookup(condition, LIMIT).n
                  ELSE DefaultLimit
    IN  IF ~HasKey(condition, OFFSET) /\ ~HasKey(condition, LIMIT)
        THEN result
        ELSE Slice(result, offset, offset + limit)

handle_limit_and_offset(condition, result) ==
    LET offset == IF HasKey(condition, OFFSET) THEN Lookup(condition, OFFSET).n
                  ELSE DefaultOffset
        limit  == IF HasKey(condition, LIMIT) THEN Lookup(condition, LIMIT).n
                  ELSE DefaultLimit
    IN  IF ~HasKey(condition, OFFSET) /\ ~HasKey(condition, LIMIT)
        THEN result
        ELSE Slice(result, offset * limit, limit * (offset + 1))

\* item.to_dataset_lineage_dict() / item.to_filtration_dict()
Project(view, item) == [view |-> view, obj |-> item]

NoResult == [object |-> <<>>, count |-> 0]

\* count is the length of the page returned
FilterSortPaginateCountsPage(objs, condition) ==
    LET f == FilterObjects(condition, objs, 1, <<>>)
    IN  IF f.exc # "" THEN [result |-> NoResult, exc |-> f.exc]
        ELSE IF HasKey(condition, SORTED_NAME)
                /\ is_valid_field(Lookup(condition, SORTED_NAME).s)
        THEN [result |-> NoResult, exc |-> "LineageQuerierParamException"]
        ELSE LET reverse == HasKey(condition, SORTED_TYPE)
                            /\ Lookup(condition, SORTED_TYPE).s = <<"descending">>
                 result  == IF HasKey(condition, SORTED_NAME)
                            THEN sorted(f.result,
                                        Lookup(condition, SORTED_NAME).s, reverse)
                            ELSE f.result
                 offset_result == handle_limit_and_offset(condition, result)
                 dataset == HasKey(condition, LINEAGE_TYPE)
                            /\ Lookup(condition, LINEAGE_TYPE).s = <<"dataset">>
             IN  [result |-> [object |-> [i \in 1..Len(offset_result) |->
                                            Project(IF dataset THEN "dataset"
                                                    ELSE "filtration",
                                                    offset_result[i])],
                              count  |-> Len(offset_result)],
                  exc    |-> ""]

\* what follows the retry pass in filter_summary_lineage; condition is the
\* dict ({} for None)
FilterSortPaginate(objs, condition) ==
    LET f == FilterObjects(condition, objs, 1, <<>>)
    IN  IF f.exc # "" THEN [result |-> NoResult, exc |-> f.exc]
        ELSE IF HasKey(condition, SORTED_NAME)
                /\ is_valid_field(Lookup(condition, SORTED_NAME).s)
        THEN [result |-> NoResult, exc |-> "LineageQuerierParamException"]
        ELSE LET reverse == HasKey(condition, SORTED_TYPE)
                            /\ Lookup(condition, SORTED_TYPE).s = <<"descending">>
                 result  == IF HasKey(condition, SORTED_NAME)
                            THEN sorted(f.result,
                                        Lookup(condition, SORTED_NAME).s, reverse)
                            ELSE f.result
                 offset_result == handle_limit_and_offset(condition, result)
                 dataset == HasKey(condition, LINEAGE_TYPE)
                            /\ Lookup(condition, LINEAGE_TYPE).s = <<"dataset">>
             IN  [result |-> [object |-> [i \in 1..Len(offset_result) |->
                                            Project(IF dataset THEN "dataset"
                                                    ELSE "filtration",
                                                    offset_result[i])],
                              count  |-> Len(result)],
                  exc    |-> ""]

filter_summary_lineage(q, files, condition) ==
    LET p == ParseFailSummaryLogs(q, files)
    IN  IF p.exc # "" THEN [q |-> p.q, result |-> NoResult, exc |-> p.exc]
        ELSE LET r == FilterSortPaginate(p.q.lineage_objects, condition)
             IN  [q |-> p.q, result |-> r.result, exc |-> r.exc]

----------------------------------------------------------------------------
(* Querier.get_summary_lineage *)

\* LineageFilterKey.get_key_list
FilterKeyList == <<"metric", "hyper_parameters", "algorithm", "train_dataset",
                   "valid_dataset", "model", "dataset_graph">>

\* LineageFilterKey.is_valid_filter_key
is_valid_filter_key(key) == key \in SeqToSet(FilterKeyList)

\* the filter_keys argument: None or a list of str
NoKeys     == [given |-> FALSE, keys |-> <<>>]
Keys(keys) == [given |-> TRUE, keys |-> keys]

\* item.get_summary_info(filter_keys)
SummaryInfo(filter_keys, item) ==
    [view |-> "summary_info", keys |-> filter_keys, obj |-> item]

\* what follows the retry pass in get_summary_lineage
Lookup_summary(q, summary_dir, filter_keys) ==
    LET keys == IF filter_keys.given THEN filter_keys.keys ELSE FilterKeyList
        objs == q.lineage_objects
    IN  IF \E i \in 1..Len(keys) : ~is_valid_filter_key(keys[i])
        THEN [result |-> <<>>, exc |-> "LineageQuerierParamException"]
        ELSE IF summary_dir = None
        THEN [result |-> [i \in 1..Len(objs) |-> SummaryInfo(keys, objs[i])],
              exc    |-> ""]
        ELSE IF summary_dir \notin DOMAIN q.index_map
        THEN [result |-> <<>>, exc |-> "LineageQuerierParamException"]
        ELSE LET index == q.index_map[summary_dir]
             IN  IF index >= Len(objs)
                 THEN [result |-> <<>>, exc |-> "IndexError"]
                 ELSE [result |-> <<SummaryInfo(keys, objs[index + 1])>>,
                       exc    |-> ""]

get_summary_lineage(q, files, summary_dir, filter_keys) ==
    LET p == ParseFailSummaryLogs(q, files)
    IN  IF p.exc # "" THEN [q |-> p.q, result |-> <<>>, exc |-> p.exc]
        ELSE LET r == Lookup_summary(p.q, summary_dir, filter_keys)
             IN  [q |-> p.q, result |-> r.result, exc |-> r.exc]

----------------------------------------------------------------------------
(* The state machine: one Querier, the calls made on it and the summary    *)
(* logs changing on disk between the calls                                 *)

Self ==
    [lineage_objects    |-> lineage_objects,
     index_map          |-> index_map,
     parse_failed_paths |-> parse_failed_paths,
     size               |-> size,
     attempted          |-> <<>>]

SetSelf(q) ==
    /\ lineage_objects' = q.lineage_objects
    /\ index_map' = q.index_map
    /\ parse_failed_paths' = q.parse_failed_paths
    /\ size' = q.size

\* the paths of the logs on disk
Paths == DOMAIN fs

\* Querier(summary_path): an exception leaves no Querier behind
Construct(summary_path) ==
    /\ state = "new"
    /\ LET r == QuerierInit(fs, summary_path)
       IN  /\ state' = IF r.exc = "" THEN "ready" ELSE "failed"
           /\ SetSelf(IF r.exc = "" THEN r.q ELSE EmptyQuerier)
           /\ call' = [op |-> "init", arg |-> summary_path, exc |-> r.exc,
                       result |-> <<>>, attempted |-> r.q.attempted]
    /\ supplied' = IF summary_path.kind = "list" THEN summary_path.val
                   ELSE IF summary_path.kind = "str" /\ ~Falsy(summary_path)
                   THEN <<summary_path.val>>
                   ELSE <<>>
    /\ UNCHANGED fs

CanQuery ==
    /\ state = "ready"
    /\ Len(lineage_objects) + Len(parse_failed_paths)
          <= Len(supplied) + MaxExtra

\* querier.get_summary_lineage(summary_dir, filter_keys)
Get(summary_dir, filter_keys) ==
    /\ CanQuery
    /\ LET r == get_summary_lineage(Self, fs, summary_dir, filter_keys)
       IN  /\ SetSelf(r.q)
           /\ call' = [op |-> "get", arg |-> <<summary_dir, filter_keys>>,
                       exc |-> r.exc, result |-> r.result,
                       attempted |-> r.q.attempted]
    /\ UNCHANGED <<fs, state, supplied>>

\* querier.filter_summary_lineage(condition); None is the same as {}
Filter(condition) ==
    /\ CanQuery
    /\ LET r == filter_summary_lineage(Self, fs, condition)
       IN  /\ SetSelf(r.q)
           /\ call' = [op |-> "filter", arg |-> condition,
                       exc |-> r.exc, result |-> r.result,
                       attempted |-> r.q.attempted]
    /\ UNCHANGED <<fs, state, supplied>>

\* a summary log is written, completed or removed: parsing it now ends as
\* status says.  Only the logs of the failed paths are read again.
LogWritten(path, status) ==
    /\ state = "ready"
    /\ path \in SeqToSet(parse_failed_paths)
    /\ fs[path].status # status
    /\ fs' = [fs EXCEPT ![path].status = status]
    /\ UNCHANGED <<state, lineage_objects, index_map, parse_failed_paths,
                   size, supplied, call>>

NoCall == [op |-> "none", arg |-> <<>>, exc |-> "", result |-> <<>>,
           attempted |-> <<>>]

InitQuerier ==
    /\ state = "new"
    /\ lineage_objects = <<>>
    /\ index_map = <<>>
    /\ parse_failed_paths = <<>>
    /\ size = 0
    /\ supplied = <<>>
    /\ call = NoCall

----------------------------------------------------------------------------
(* Spec: a few logs, two of them in the same directory, any list of them   *)
(* given to the constructor, any status at any time                        *)

SmallPaths == {<<1, 1>>, <<1, 2>>, <<2, 1>>}

\* the two logs of directory 1 hold different dataset graphs, the log of
\* directory 2 holds the first of them
SmallLog(path, status) ==
    [status |-> status, graph |-> path[2], epoch |-> 1, accuracy |-> None]

\* each log fails in one of the three tolerated ways, or in another way
SmallStatuses(path) ==
    {OK, "OtherError",
     IF path = <<1, 1>> THEN "LineageSummaryAnalyzeException"
     ELSE IF path = <<1, 2>> THEN "LineageEventNotExistException"
     ELSE "LineageEventFieldNotExistException"}

SummaryPaths(paths) ==
    {StrArg(p) : p \in paths \cup {<<>>}}
        \cup {ListArg(ps) : ps \in SeqsUpTo(paths, MaxPaths)}
        \cup {OtherArg}

SmallDirs == {dirname(p) : p \in SmallPaths}

Init ==
    /\ \E st \in [SmallPaths -> Statuses] :
          /\ \A p \in SmallPaths : st[p] \in SmallStatuses(p)
          /\ fs = [p \in SmallPaths |-> SmallLog(p, st[p])]
    /\ InitQuerier

Next ==
    \/ \E summary_path \in SummaryPaths(Paths) : Construct(summary_path)
    \/ \E d \in SmallDirs \cup {None} : Get(d, NoKeys)
    \/ Filter(<<>>)
    \/ \E p \in Paths : \E s \in SmallStatuses(p) : LogWritten(p, s)

Spec == Init /\ [][Next]_vars

----------------------------------------------------------------------------
(* Ingestion and retry: the claims                                         *)

PathsOf(objs) == [i \in 1..Len(objs) |-> objs[i].log_path]

AttemptedPaths(c) == [i \in 1..Len(c.attempted) |-> c.attempted[i].path]

IsPrefix(s, t) == Len(s) <= Len(t) /\ s = SubSeq(t, 1, Len(s))

\* a step that is a call of get_summary_lineage or filter_summary_lineage
QueryStep == state = "ready" /\ fs' = fs /\ call'.op \in {"get", "filter"}

\* the retry pass of the call ran to its end: no parse raised an error other
\* than the three tolerated ones
PassCompleted == call'.exc \notin OtherErrors

ParsesNow(p) == fs[p].status = OK
FailsNow(p) == fs[p].status # OK

HasRecord(objs, p) == \E i \in 1..Len(objs) : objs[i].log_path = p

\* C2: a failed path that parses when a query call runs to its end has a
\* record and has left the failed-list after that call, and filter({})
\* counts it; when every failed path parses, one query empties the
\* failed-list and filter({}) counts as many records as paths were given to
\* the constructor.
C2_SelfHealing ==
    [][(QueryStep /\ PassCompleted) =>
         LET whole == call'.op = "filter" /\ call'.arg = <<>> /\ call'.exc = ""
         IN  /\ \A i \in 1..Len(parse_failed_paths) :
                    ParsesNow(parse_failed_paths[i]) =>
                       /\ HasRecord(lineage_objects', parse_failed_paths[i])
                       /\ parse_failed_paths[i]
                              \notin SeqToSet(parse_failed_paths')
             /\ whole => call'.result.count = Len(lineage_objects')
             /\ (\A i \in 1..Len(parse_failed_paths) :
                    ParsesNow(parse_failed_paths[i])) =>
                       /\ parse_failed_paths' = <<>>
                       /\ whole => call'.result.count = Len(supplied)
      ]_vars

\* C3: the constructor hands the paths of a list to the parser in list
\* order; only an error other than the three tolerated ones keeps the later
\* paths from being tried.  When construction succeeds the records are those
\* of the paths that parsed and the failed-list holds those that failed,
\* both in list order.
C3_IngestEveryPath ==
    (call.op = "init" /\ call.arg.kind = "list") =>
        LET list == call.arg.val
            att  == call.attempted
            Parsed(i) == att[i].status = OK
            Failed(i) == att[i].status \in RetryableErrors
        IN  /\ IsPrefix(AttemptedPaths(call), list)
            /\ \A i \in 1..Len(att) :
                   (Parsed(i) \/ Failed(i)) /\ i < Len(list) => Len(att) > i
            /\ state = "ready" =>
                   /\ Len(att) = Len(list)
                   /\ PathsOf(lineage_objects)
                          = [i \in 1..Len(lineage_objects) |->
                               list[CHOOSE k \in 1..Len(list) :
                                      /\ Parsed(k)
                                      /\ Cardinality({j \in 1..k : Parsed(j)}) = i]]
                   /\ parse_failed_paths
                          = [i \in 1..Len(parse_failed_paths) |->
                               list[CHOOSE k \in 1..Len(list) :
                                      /\ Failed(k)
                                      /\ Cardinality({j \in 1..k : Failed(j)}) = i]]
                   /\ Len(lineage_objects) + Len(parse_failed_paths) = Len(list)

\* a list of three: a tolerated failure first, then two logs that parse
C3_Witness ==
    /\ call.op = "init" /\ call.arg.kind = "list" /\ state = "ready"
    /\ Len(call.attempted) = 3
    /\ call.attempted[1].status \in RetryableErrors
    /\ Len(lineage_objects) = 2
    /\ Len(parse_failed_paths) = 1

\* C4: the constructor ends with LineageSummaryParseException exactly when
\* every path it was given was tried, each try ended, and none parsed; it
\* succeeds when one path parsed and the others failed in the tolerated
\* ways.  A constructed Querier always holds a record.
C4_AllFailedIsTerminal ==
    /\ call.op = "init" =>
          LET att == call.attempted
              allTried == /\ supplied # <<>>
                          /\ Len(att) = Len(supplied)
                          /\ \A i \in 1..Len(att) :
                                 att[i].status \in RetryableErrors \cup {OK}
          IN  /\ call.exc = "LineageSummaryParseException"
                    <=> (allTried /\ \A i \in 1..Len(att) : att[i].status # OK)
              /\ (allTried /\ \E i \in 1..Len(att) : att[i].status = OK)
                    => (state = "ready" /\ call.exc = "")
    /\ state = "ready" => Len(lineage_objects) >= 1

\* every path of a list of two fails in a tolerated way
C4_Witness ==
    /\ call.op = "init" /\ call.exc = "LineageSummaryParseException"
    /\ state = "failed"
    /\ Len(call.attempted) = 2

\* C7: no two records of a Querier have the same summary_dir
C7_UniqueLocationKey ==
    \A i, j \in 1..Len(lineage_objects) :
        i # j => lineage_objects[i].summary_dir # lineage_objects[j].summary_dir

----------------------------------------------------------------------------
(* SpecMarks: many logs, one per directory, given to the constructor in    *)
(* the order of their directories.  Log d holds a dataset graph of its own *)
(* (graph d), but for at most MaxRepeats logs, which hold no graph, the    *)
(* graph of the first log or the graph of the log before them.  At most    *)
(* one log, one of those that share a graph, is incomplete when the        *)
(* Querier is constructed; it is completed later and a query ingests it,   *)
(* so that graphs meet again in either order and at any distance.          *)

MarkDirs == 1..MaxMarkLogs
MarkPaths == {<<d, 1>> : d \in MarkDirs}
MarkList == [d \in MarkDirs |-> <<d, 1>>]

\* the graphs log d may hold instead of its own
RepeatGraphs(d) == {g \in {None, 1, d - 1} : g < d}

InitMarks ==
    /\ \E S \in SUBSET MarkDirs :
         /\ Cardinality(S) <= MaxRepeats
         /\ \E r \in [S -> {None} \cup MarkDirs] :
              /\ \A d \in S : r[d] \in RepeatGraphs(d)
              /\ \E incomplete \in {0} \cup S \cup ({r[d] : d \in S} \ {None}) :
                   fs = [p \in MarkPaths |->
                           [status   |-> IF p[1] = incomplete
                                         THEN "LineageEventNotExistException"
                                         ELSE OK,
                            graph    |-> IF p[1] \in S THEN r[p[1]] ELSE p[1],
                            epoch    |-> 1,
                            accuracy |-> None]]
    /\ InitQuerier

NextMarks ==
    \/ Construct(ListArg(MarkList))
    \/ \E p \in Paths : LogWritten(p, OK)
    \/ Filter(<<>>)

SpecMarks == InitMarks /\ [][NextMarks]_vars

----------------------------------------------------------------------------
(* Dataset marks: the claims                                               *)

Graph(i) == lineage_objects[i].dataset_graph
Mark(i) == lineage_objects[i].dataset_mark
Records == 1..Len(lineage_objects)

\* C8: two records with equal dataset graphs carry the same dataset mark,
\* and a record with no dataset graph carries the mark "1"
C8_EqualGraphsShareMark ==
    /\ \A i, j \in Records : Graph(i) = Graph(j) => Mark(i) = Mark(j)
    /\ \A i \in Records : Graph(i) = None => Mark(i) = <<1>>

\* a retry has ingested a log, the records hold ten different graphs or
\* more, and a graph with the mark "10" is held by two records that are not
\* neighbours
C8_Witness ==
    /\ call.op = "filter" /\ Len(call.attempted) = 1
    /\ Cardinality({Graph(i) : i \in Records} \ {None}) >= 10
    /\ \E i, j \in Records : i + 1 < j /\ Graph(i) = Graph(j) /\ Graph(i) # None
                              /\ Mark(i) = <<1, 0>>

\* the number of different graphs among the records up to the first one
\* that holds the graph of record i
Rank(i) ==
    LET first == CHOOSE k \in Records :
                    /\ Graph(k) = Graph(i)
                    /\ \A j \in 1..(k - 1) : Graph(j) # Graph(i)
    IN  Cardinality({Graph(j) : j \in 1..first} \ {None})

\* C9: the k-th different dataset graph of the record sequence has the mark
\* k + 1, and no two different graphs have the same mark
C9_NumericSuccessor ==
    /\ \A i \in Records : Graph(i) # None => int(Mark(i)) = Rank(i) + 1
    /\ \A i, j \in Records : Graph(i) # Graph(j) => Mark(i) # Mark(j)

----------------------------------------------------------------------------
(* SpecFilter and SpecSort: a Querier over a few logs, one per directory,  *)
(* whose records differ in their values, and filter_summary_lineage called *)
(* with conditions that filter (SpecFilter) or sort (SpecSort).  Log d has *)
(* epoch d; its metric accuracy is any value; the last log may be          *)
(* incomplete, and then every query tries it again.  The logs do not       *)
(* change, so a query leaves the Querier as it is and the states after a   *)
(* second query are those after a first: the queries explored are the      *)
(* first ones.                                                             *)

Values == {None} \cup (1..MaxValue)

QueryLogs(n) == {<<d, 1>> : d \in 1..n}
QueryList(n) == [d \in 1..n |-> <<d, 1>>]

InitQuery(n) ==
    /\ \E acc \in [1..n -> Values], complete \in BOOLEAN :
         fs = [p \in QueryLogs(n) |->
                 [status   |-> IF p[1] = n /\ n > 1 /\ ~complete
                               THEN "LineageSummaryAnalyzeException"
                               ELSE OK,
                  graph    |-> None,
                  epoch    |-> p[1],
                  accuracy |-> acc[p[1]]]]
    /\ InitQuerier

EPOCH    == <<"epoch">>
ACCURACY == <<"metric_", "accuracy">>
BOGUS    == <<"bogus">>

Exp(k, v) == [key |-> k, value |-> v]

\* one expression: the six kinds and one that ExpressionType does not have
OneExp ==
    {Exp("eq", Scalar(v)) : v \in Values}
        \cup {Exp(k, Scalar(1)) : k \in {"lt", "gt", "le", "ge", "ne"}}
        \cup {Exp("in", List(<<None, MaxValue>>))}

\* the expressions of one field: one, or two of different kinds
ExpDicts ==
    {<<e>> : e \in OneExp}
        \cup {d \in {<<e1, e2>> : e1 \in OneExp, e2 \in OneExp} :
                 d[1].key # d[2].key}

FilterFields == {EPOCH, ACCURACY, BOGUS}

\* conditions of one field, of two fields in either order, of a field
\* after a control key and of a field among all the control keys
FilterConditions ==
    {<<>>}
        \cup {<<FieldItem(f, d)>> : f \in FilterFields, d \in ExpDicts}
        \cup {c \in {<<FieldItem(f1, <<e1>>), FieldItem(f2, <<e2>>)>> :
                         f1 \in FilterFields, f2 \in FilterFields,
                         e1 \in OneExp, e2 \in OneExp} :
                 c[1].key # c[2].key}
        \cup {<<IntItem(LIMIT, 1), FieldItem(f, <<e>>)>> :
                 f \in FilterFields, e \in OneExp}
        \cup {<<StrItem(SORTED_NAME, EPOCH), StrItem(SORTED_TYPE, <<"descending">>),
                FieldItem(f, <<e>>), StrItem(LINEAGE_TYPE, <<"dataset">>),
                IntItem(OFFSET, 0)>> :
                 f \in FilterFields, e \in OneExp}

InitFilter == InitQuery(MaxFilterLogs)

NextFilter ==
    \/ Construct(ListArg(QueryList(MaxFilterLogs)))
    \/ call.op = "init" /\ \E condition \in FilterConditions : Filter(condition)

SpecFilter == InitFilter /\ [][NextFilter]_vars

SortNames == {EPOCH, ACCURACY, BOGUS}

SortParts ==
    {<<>>}
        \cup {<<StrItem(SORTED_NAME, n)>> : n \in SortNames}
        \cup {<<StrItem(SORTED_NAME, n), StrItem(SORTED_TYPE, <<t>>)>> :
                 n \in SortNames, t \in {"ascending", "descending", "DESC"}}

PageParts ==
    {<<>>, <<IntItem(LIMIT, 2)>>, <<IntItem(OFFSET, 1), IntItem(LIMIT, 1)>>}

SortConditions ==
    {f \o srt \o pg :
        f \in {<<>>, <<FieldItem(ACCURACY, <<Exp("in", List(<<None, 1>>))>>)>>},
        srt \in SortParts, pg \in PageParts}

InitSort == InitQuery(MaxSortLogs)

NextSort ==
    \/ Construct(ListArg(QueryList(MaxSortLogs)))
    \/ call.op = "init" /\ \E condition \in SortConditions : Filter(condition)

SpecSort == InitSort /\ [][NextSort]_vars

----------------------------------------------------------------------------
(* SpecPage: a Querier over more logs than a page of the default limit     *)
(* holds, and filter_summary_lineage called with every limit and offset up *)
(* to one more than there are logs.  Log d has epoch d; the first log may  *)
(* be incomplete when the Querier is constructed and be completed later,   *)
(* so that its record is the last of the sequence.                         *)

PageLogs == {<<d, 1>> : d \in 1..MaxPageLogs}
PageList == [d \in 1..MaxPageLogs |-> <<d, 1>>]

InitPage ==
    /\ \E complete \in BOOLEAN :
         fs = [p \in PageLogs |->
                 [status   |-> IF p[1] = 1 /\ ~complete
                               THEN "LineageEventNotExistException"
                               ELSE OK,
                  graph    |-> None,
                  epoch    |-> p[1],
                  accuracy |-> None]]
    /\ InitQuerier

PageValues == 0..(MaxPageLogs + 1)

\* no filter, a filter that no record passes, one that two records pass
PageFilters ==
    {<<>>,
     <<FieldItem(EPOCH, <<Exp("gt", Scalar(MaxPageLogs))>>)>>,
     <<FieldItem(EPOCH, <<Exp("in", List(<<2, 3>>))>>)>>}

PageSorts ==
    {<<>>, <<StrItem(SORTED_NAME, EPOCH), StrItem(SORTED_TYPE, <<"descending">>)>>}

\* neither key, one of them, both
Pages ==
    {<<>>}
        \cup {<<IntItem(LIMIT, l)>> : l \in PageValues}
        \cup {<<IntItem(OFFSET, o)>> : o \in PageValues}
        \cup {<<IntItem(OFFSET, o), IntItem(LIMIT, l)>> :
                 o \in PageValues, l \in PageValues}

PageConditions ==
    {f \o srt \o pg : f \in PageFilters, srt \in PageSorts, pg \in Pages}

NextPage ==
    \/ Construct(ListArg(PageList))
    \/ \E p \in Paths : LogWritten(p, OK)
    \/ call.op = "init" /\ \E condition \in PageConditions : Filter(condition)

SpecPage == InitPage /\ [][NextPage]_vars

----------------------------------------------------------------------------
(* SpecMatch: ExpressionType.is_match applied to every kind, every expected *)
(* value (a value or a list of at most two values) and every actual value  *)

ExpectedValues ==
    {Scalar(v) : v \in Values} \cup {List(vs) : vs \in SeqsUpTo(Values, 2)}

InitMatch ==
    /\ fs = <<>>
    /\ InitQuerier

\* ExpressionType.is_match(except_key, except_value, actual_value)
IsMatch(except_key, except_value, actual_value) ==
    /\ LET r == is_match(except_key, except_value, actual_value)
       IN  call' = [op |-> "is_match",
                    arg |-> <<except_key, except_value, actual_value>>,
                    exc |-> r.exc, result |-> r.state, attempted |-> <<>>]
    /\ UNCHANGED <<fs, state, lineage_objects, index_map, parse_failed_paths,
                   size, supplied>>

NextMatch ==
    \E k \in {"eq", "lt", "gt", "le", "ge", "in"}, e \in ExpectedValues,
       a \in Values : IsMatch(k, e, a)

SpecMatch == InitMatch /\ [][NextMatch]_vars

----------------------------------------------------------------------------
(* Filtering and sorting: the claims                                       *)

\* a key of the condition that is no control key and no supported field
HasUnknownField(condition) ==
    \E i \in 1..Len(condition) :
        /\ ~is_condition_type(condition[i].key)
        /\ condition[i].key \notin FIELD_MAPPING
        /\ condition[i].key[1] # "metric_"

\* an expression of some field whose kind is none of the six
HasUnknownExp(condition) ==
    \E i \in 1..Len(condition) :
        /\ ~is_condition_type(condition[i].key)
        /\ \E j \in 1..Len(condition[i].value.exps) :
              condition[i].value.exps[j].key
                 \notin {"eq", "lt", "gt", "le", "ge", "in"}

\* C5: a filter call whose condition has a key that is neither a control
\* key nor a supported field ends with LineageQuerierParamException,
\* whatever the records and the other entries of the condition
C5_UnknownFieldFails ==
    (call.op = "filter" /\ HasUnknownField(call.arg))
        => call.exc = "LineageQuerierParamException"

\* C6: a filter call whose condition has an expression of an unknown kind
\* ends with LineageQuerierParamException, whatever the records and the
\* other expressions and fields of the condition
C6_UnknownExpFails ==
    (call.op = "filter" /\ HasUnknownExp(call.arg))
        => call.exc = "LineageQuerierParamException"

\* a successful filter call that sorts descending and does not paginate
DescendingCall ==
    /\ call.op = "filter" /\ call.exc = ""
    /\ HasKey(call.arg, SORTED_NAME)
    /\ HasKey(call.arg, SORTED_TYPE)
    /\ Lookup(call.arg, SORTED_TYPE).s = <<"descending">>
    /\ ~HasKey(call.arg, LIMIT) /\ ~HasKey(call.arg, OFFSET)

\* the condition with its sorted_type replaced
WithSortedType(condition, t) ==
    [i \in 1..Len(condition) |->
        IF condition[i].key = SORTED_TYPE THEN StrItem(SORTED_TYPE, <<t>>)
        ELSE condition[i]]

\* what the call would have returned had it asked for the ascending order
AscendingObjects ==
    FilterSortPaginate(lineage_objects,
                       WithSortedType(call.arg, "ascending")).result.object

SortValue(item) == get_value_by_key(item.obj, Lookup(call.arg, SORTED_NAME).s)

\* C10 as stated: the descending result is the reversal of the ascending one
C10_DescendingIsReversal ==
    DescendingCall => call.result.object = Reverse(AscendingObjects)

\* C10 as amended: the descending result is the ascending one with the
\* order of the different sort values reversed; records whose sort values are
\* equal (or both None) keep among themselves the order they have in the
\* ascending result.  The record at place a of the ascending result, whose
\* ties take the places lo..hi there, is at place (n + 1 - hi) + (a - lo).
C10_DescendingKeepsTies ==
    DescendingCall =>
        LET A == AscendingObjects
            D == call.result.object
            n == Len(A)
            Ties(a) == {k \in 1..n : SortValue(A[k]) = SortValue(A[a])}
            lo(a) == CHOOSE k \in Ties(a) : \A m \in Ties(a) : k <= m
            hi(a) == CHOOSE k \in Ties(a) : \A m \in Ties(a) : k >= m
        IN  /\ Len(D) = n
            /\ \A a \in 1..n : D[(n + 1 - hi(a)) + (a - lo(a))] = A[a]

\* a descending sort of three records, two of which tie
C10_Witness ==
    /\ DescendingCall
    /\ Len(call.result.object) = 3
    /\ \E i, j, k \in 1..3 :
          /\ i < j
          /\ SortValue(call.result.object[i]) = SortValue(call.result.object[j])
          /\ SortValue(call.result.object[k]) # SortValue(call.result.object[i])

\* a successful filter call that sorts and does not paginate
SortCall ==
    /\ call.op = "filter" /\ call.exc = ""
    /\ HasKey(call.arg, SORTED_NAME)
    /\ ~HasKey(call.arg, LIMIT) /\ ~HasKey(call.arg, OFFSET)

\* the records that pass the filter of the call, in the order of the
\* record sequence
Filtered == FilterObjects(call.arg, lineage_objects, 1, <<>>).result

\* the records of the result, without their projection
ResultObjs == [i \in 1..Len(call.result.object) |-> call.result.object[i].obj]

\* the condition asking for the order t
Resorted(condition, t) ==
    LET NotType(item) == item.key # SORTED_TYPE
    IN  Append(SelectSeq(condition, NotType), StrItem(SORTED_TYPE, <<t>>))

AllNull == \A i \in 1..Len(Filtered) : SortValue([obj |-> Filtered[i]]) = None

\* C11: when every filtered record has no value under sorted_name, the
\* sorted result is the filtered records in insertion order, and it is what
\* the same condition returns with the other sorted_type
C11_AllNullKeepsOrder ==
    (SortCall /\ AllNull) =>
        /\ ResultObjs = Filtered
        /\ \A t \in {"ascending", "descending"} :
              call.result = FilterSortPaginate(lineage_objects,
                                               Resorted(call.arg, t)).result

\* a descending sort by a field that none of the two filtered records
\* has, a third record having it
C11_Witness ==
    /\ SortCall /\ AllNull
    /\ HasKey(call.arg, SORTED_TYPE)
    /\ Lookup(call.arg, SORTED_TYPE).s = <<"descending">>
    /\ Len(Filtered) = 2
    /\ Len(lineage_objects) = 3
    /\ \E i \in 1..3 : SortValue([obj |-> lineage_objects[i]]) # None

\* how many times x occurs in the sequence s
Count(s, x) == Cardinality({i \in 1..Len(s) : s[i] = x})

IsDescending ==
    HasKey(call.arg, SORTED_TYPE)
        /\ Lookup(call.arg, SORTED_TYPE).s = <<"descending">>

\* C12: the sorted result is a permutation of the filtered records; unless
\* sorted_type is "descending" the records without a sort value come first
\* and the values do not decrease, under "descending" the values do not
\* increase and the records without a value come last
C12_SortedByNullAwareOrder ==
    SortCall =>
        LET n    == Len(call.result.object)
            V(i) == SortValue(call.result.object[i])
        IN  /\ n = Len(Filtered)
            /\ \A i \in 1..n : Count(ResultObjs, Filtered[i])
                                  = Count(Filtered, Filtered[i])
            /\ \A i, j \in 1..n :
                  i < j =>
                     IF IsDescending
                     THEN /\ V(i) = None => V(j) = None
                          /\ (V(i) # None /\ V(j) # None) => V(i) >= V(j)
                     ELSE /\ V(j) = None => V(i) = None
                          /\ (V(i) # None /\ V(j) # None) => V(i) <= V(j)

\* records with the values 2, None, 1 sorted descending: 2, 1, None
C12_Witness ==
    /\ SortCall /\ IsDescending
    /\ Len(Filtered) = 3
    /\ [i \in 1..3 |-> SortValue([obj |-> Filtered[i]])] = <<2, None, 1>>
    /\ [i \in 1..3 |-> SortValue(call.result.object[i])] = <<2, 1, None>>

\* C13: a filter call with a well-formed condition succeeds and reports as
\* count the number of records that pass the filter, whatever limit and
\* offset are; when no record passes, the object list is empty and count 0
C13_CountIsFilteredLength ==
    call.op = "filter" =>
        /\ call.exc = ""
        /\ call.result.count = Len(Filtered)
        /\ Filtered = <<>> => call.result = [object |-> <<>>, count |-> 0]

\* a page shorter than the limit, past the first page: count is not the
\* length of the page
C13_Witness ==
    /\ call.op = "filter" /\ call.exc = ""
    /\ HasKey(call.arg, LIMIT) /\ HasKey(call.arg, OFFSET)
    /\ Lookup(call.arg, OFFSET).n = 1
    /\ Len(call.result.object) >= 1
    /\ Len(call.result.object) < Lookup(call.arg, LIMIT).n
    /\ call.result.count = MaxPageLogs

\* no record passes the filter of a paginated call
C13_WitnessEmpty ==
    /\ call.op = "filter" /\ call.exc = ""
    /\ HasKey(call.arg, LIMIT)
    /\ Filtered = <<>>
    /\ Len(lineage_objects) = MaxPageLogs

\* the condition without limit and offset
Unpaged(condition) ==
    LET NotPage(item) == item.key \notin {LIMIT, OFFSET}
    IN  SelectSeq(condition, NotPage)

\* the filtered and sorted sequence of the call, projected
WholeSequence ==
    FilterSortPaginate(lineage_objects, Unpaged(call.arg)).result.object

Min(a, b) == IF a < b THEN a ELSE b

\* C14: a filter call whose condition has limit or offset returns, without
\* an error, the elements at the 0-based positions offset * limit up to but
\* not including offset * limit + limit of the filtered and sorted sequence,
\* as many of them as exist; offset is 0 and limit is 10 when not given
C14_WindowOfSequence ==
    (call.op = "filter" /\ (HasKey(call.arg, LIMIT) \/ HasKey(call.arg, OFFSET)))
        => LET offset == IF HasKey(call.arg, OFFSET)
                         THEN Lookup(call.arg, OFFSET).n ELSE 0
               limit  == IF HasKey(call.arg, LIMIT)
                         THEN Lookup(call.arg, LIMIT).n ELSE 10
               S      == WholeSequence
               lo     == Min(offset * limit, Len(S))
               hi     == Min(offset * limit + limit, Len(S))
           IN  /\ call.exc = ""
               /\ call.result.object = [i \in 1..(hi - lo) |-> S[lo + i]]

\* offset 1 alone: the second page of ten holds the eleventh record only
C14_Witness ==
    /\ call.op = "filter" /\ call.exc = ""
    /\ HasKey(call.arg, OFFSET) /\ ~HasKey(call.arg, LIMIT)
    /\ Lookup(call.arg, OFFSET).n = 1
    /\ Len(WholeSequence) = 11
    /\ call.result.object = <<WholeSequence[11]>>
    /\ call.result.count = 11

\* what the call would have returned with offset 0 and limit 10 added to
\* its condition
FirstPageOfTen ==
    FilterSortPaginate(lineage_objects,
                       call.arg \o <<IntItem(OFFSET, 0), IntItem(LIMIT, 10)>>)
        .result.object

\* C15: a filter call whose condition has neither limit nor offset returns
\* every record that passes the filter, however many; the same condition
\* with offset 0 and limit 10 returns the first ten of them at most
C15_NoPaginationReturnsAll ==
    (call.op = "filter" /\ ~HasKey(call.arg, LIMIT) /\ ~HasKey(call.arg, OFFSET))
        => /\ call.exc = ""
           /\ Len(call.result.object) = Len(Filtered)
           /\ \A i \in 1..Len(Filtered) :
                 Count(ResultObjs, Filtered[i]) = Count(Filtered, Filtered[i])
           /\ ~HasKey(call.arg, SORTED_NAME) => ResultObjs = Filtered
           /\ FirstPageOfTen
                 = SubSeq(call.result.object, 1, Min(10, Len(Filtered)))

\* eleven records pass and eleven are returned
C15_Witness ==
    /\ call.op = "filter" /\ call.exc = ""
    /\ ~HasKey(call.arg, LIMIT) /\ ~HasKey(call.arg, OFFSET)
    /\ Len(call.result.object) = 11
    /\ Len(FirstPageOfTen) = 10

\* every expression of the field entry matches the record's value
FieldMatches(item, obj) ==
    \A j \in 1..Len(item.value.exps) :
        is_match(item.value.exps[j].key, item.value.exps[j].value,
                 get_value_by_key(obj, item.key)).state

\* every field entry of the condition of the call matches the record
Passes(obj) ==
    \A i \in 1..Len(call.arg) :
        ~is_condition_type(call.arg[i].key) => FieldMatches(call.arg[i], obj)

\* C16: a filter call whose field names and expression kinds are all
\* recognized succeeds; the records it counts and returns are those that
\* every expression of every field entry matches, and a control key in the
\* condition excludes no record (limit and offset only cut the list
\* returned, sorted_name only orders it)
C16_PassesIffAllMatch ==
    (call.op = "filter" /\ ~HasUnknownField(call.arg) /\ ~HasUnknownExp(call.arg))
        => LET P == SelectSeq(lineage_objects, Passes)
               paged  == HasKey(call.arg, LIMIT) \/ HasKey(call.arg, OFFSET)
               sorts  == HasKey(call.arg, SORTED_NAME)
           IN  /\ call.exc = ""
               /\ call.result.count = Len(P)
               /\ \A i \in 1..Len(ResultObjs) :
                     Count(ResultObjs, ResultObjs[i]) = Count(P, ResultObjs[i])
               /\ (Len(P) <= 1 \/ ~paged) => Len(ResultObjs) = Len(P)
               /\ ~sorts => ResultObjs = SubSeq(P, 1, Len(ResultObjs))

\* two field entries: one record matches both, the other matches the first
\* entry only and is left out
C16_Witness ==
    /\ call.op = "filter" /\ call.exc = ""
    /\ Len(call.arg) = 2
    /\ ~is_condition_type(call.arg[1].key) /\ ~is_condition_type(call.arg[2].key)
    /\ Len(lineage_objects) = 2
    /\ Len(ResultObjs) = 1
    /\ \E i \in 1..2 :
          /\ lineage_objects[i] # ResultObjs[1]
          /\ FieldMatches(call.arg[1], lineage_objects[i])
          /\ ~FieldMatches(call.arg[2], lineage_objects[i])

\* C17: is_match answers False, without an error, for an actual value of
\* None under lt, gt, le and ge, whatever is expected; under in it answers
\* whether the actual value is an element of the expected list; under eq it
\* answers whether the actual value equals the expected one, so that None
\* matches eq against None only
C17_IsMatch ==
    call.op = "is_match" =>
        LET except_key   == call.arg[1]
            except_value == call.arg[2]
            actual_value == call.arg[3]
        IN  /\ (actual_value = None /\ except_key \in {"lt", "gt", "le", "ge"})
                  => (call.exc = "" /\ call.result = FALSE)
            /\ (except_key = "in" /\ except_value.list)
                  => /\ call.exc = ""
                     /\ call.result
                           = (\E i \in 1..Len(except_value.v) :
                                 except_value.v[i] = actual_value)
            /\ except_key = "eq"
                  => /\ call.exc = ""
                     /\ call.result = (except_value = Scalar(actual_value))

\* None is expected under eq and None is the actual value: a match
C17_Witness ==
    /\ call.op = "is_match"
    /\ call.arg = <<"eq", Scalar(None), None>>
    /\ call.result = TRUE

\* a step that is a call of get_summary_lineage for a directory, whose
\* retry pass ran to its end
GetDirStep ==
    /\ QueryStep /\ call'.op = "get" /\ call'.arg[1] # None
    /\ PassCompleted

HasRecordOfDir(objs, d) == \E i \in 1..Len(objs) : objs[i].summary_dir = d

\* C18: get for a directory that has no record after the retry pass of the
\* call ends with LineageQuerierParamException; get for the directory of a
\* failed path that the retry pass of the call parses returns one element,
\* the summary info of the record of that path
C18_GetAfterRetry ==
    [][GetDirStep =>
         LET d == call'.arg[1]
         IN  /\ ~HasRecordOfDir(lineage_objects', d)
                   => call'.exc = "LineageQuerierParamException"
             /\ \A i \in 1..Len(parse_failed_paths) :
                   LET p == parse_failed_paths[i]
                   IN  (dirname(p) = d /\ ParsesNow(p))
                          => /\ call'.exc = ""
                             /\ Len(call'.result) = 1
                             /\ call'.result[1].view = "summary_info"
                             /\ call'.result[1].obj.log_path = p
                             /\ \E k \in 1..Len(lineage_objects') :
                                   lineage_objects'[k] = call'.result[1].obj
      ]_vars

\* C19: after every call on a constructed Querier size is the number of
\* records, every index of the lookup map is a position of the record
\* sequence (counted from 0) and the record there has the directory as its
\* summary_dir; a call gives a directory it adds to the map an index
\* greater than every index given before and leaves the index of every
\* directory that had one as it was
C19_IndexConsistency ==
    [][state' = "ready" =>
         /\ size' = Len(lineage_objects')
         /\ \A d \in DOMAIN index_map' :
               /\ 0 <= index_map'[d] /\ index_map'[d] < Len(lineage_objects')
               /\ lineage_objects'[index_map'[d] + 1].summary_dir = d
         /\ state = "ready" =>
               /\ \A d \in DOMAIN index_map : index_map'[d] = index_map[d]
               /\ \A d \in DOMAIN index_map' \ DOMAIN index_map :
                     index_map'[d] >= Len(lineage_objects)
      ]_vars

\* how many of the tries of the call ended in the way the test says
Tries(c, Test(_)) == Cardinality({i \in 1..Len(c.attempted) : Test(c.attempted[i])})

TriedOK(a) == a.status = OK
TriedRetryable(a) == a.status \in RetryableErrors

\* C20: a try that ends with one of the three tolerated errors is absorbed
\* and a try that ends with another error ends the call with that error.
\* A query whose tries all end with tolerated errors leaves the records
\* (their marks included), the lookup map, size and the failed-list as they
\* were; in any query the records, the map and size change by the tries
\* that parsed only, and the failed-list gains no path.  The constructor
\* puts each path whose try ended with a tolerated error on the failed-list.
C20_RetryableFailureAbsorbed ==
    [][fs' = fs =>
         LET att == call'.attempted
             n   == Len(att)
         IN  /\ \A i \in 1..n :
                   /\ att[i].status \in OtherErrors
                         => (i = n /\ call'.exc = att[i].status)
                   /\ att[i].status \in RetryableErrors
                         => call'.exc # att[i].status
             /\ QueryStep =>
                   /\ Len(lineage_objects') = Len(lineage_objects) + Tries(call', TriedOK)
                   /\ SubSeq(lineage_objects', 1, Len(lineage_objects))
                         = lineage_objects
                   /\ size' = size + Tries(call', TriedOK)
                   /\ \A d \in DOMAIN index_map' :
                         (\A i \in 1..n : ~(TriedOK(att[i]) /\ dirname(att[i].path) = d))
                            => (d \in DOMAIN index_map /\ index_map'[d] = index_map[d])
                   /\ Len(parse_failed_paths') <= Len(parse_failed_paths)
                   /\ SeqToSet(parse_failed_paths') \subseteq SeqToSet(parse_failed_paths)
                   /\ (\A i \in 1..n : TriedRetryable(att[i]))
                         => /\ lineage_objects' = lineage_objects
                            /\ index_map' = index_map
                            /\ parse_failed_paths' = parse_failed_paths
             /\ (call'.op = "init" /\ state' = "ready") =>
                   /\ parse_failed_paths'
                         = [i \in 1..Len(parse_failed_paths') |->
                               SelectSeq(att, TriedRetryable)[i].path]
                   /\ Len(lineage_objects') = Tries(call', TriedOK)
      ]_vars

\* a query has tried two failed paths again, both ended with a tolerated
\* error and both are still on the failed-list, once each
C20_Witness ==
    /\ call.op = "filter" /\ call.exc = ""
    /\ Len(call.attempted) = 2
    /\ \A i \in 1..2 : TriedRetryable(call.attempted[i])
    /\ parse_failed_paths = <<call.attempted[1].path, call.attempted[2].path>>
    /\ Len(lineage_objects) = 1

\* C21: a call on a constructed Querier leaves the dataset mark of every
\* record the Querier held as it was, whatever the call ingests, and after
\* every call that leaves a Querier every record has a mark
C21_MarksAreStable ==
    [][state' = "ready" =>
         /\ \A i \in 1..Len(lineage_objects') :
               lineage_objects'[i].dataset_mark # <<>>
         /\ state = "ready" =>
               /\ Len(lineage_objects') >= Len(lineage_objects)
               /\ \A i \in 1..Len(lineage_objects) :
                     lineage_objects'[i].dataset_mark
                        = lineage_objects[i].dataset_mark
      ]_vars

\* a retry has ingested a log whose graph an older record holds too, among
\* ten different graphs or more
C21_Witness ==
    /\ call.op = "filter" /\ Len(call.attempted) = 1
    /\ call.attempted[1].status = OK
    /\ Len(lineage_objects) = MaxMarkLogs
    /\ Cardinality({Graph(i) : i \in Records} \ {None}) >= 10
    /\ \E i \in Records : i < MaxMarkLogs /\ Graph(i) = Graph(MaxMarkLogs)
                             /\ Graph(i) # None

\* only records without a dataset graph carry mark "1"
MarkOneMeansNoGraph ==
    \A i \in Records : Mark(i) = str(1) => Graph(i) = None

\* C22: two held records with different dataset graphs never carry the same
\* dataset mark, and only records without a dataset graph carry mark "1"
C22_MarksSeparateGraphs ==
    state = "ready" =>
        /\ MarkOneMeansNoGraph
        /\ \A i \in Records : \A j \in Records :
              Mark(i) = Mark(j) => Graph(i) = Graph(j)

\* C23: after a query call, whichever way it ended, no path of the
\* failed-list has a record in the sequence
C23_FailedPathsHaveNoRecord ==
    (state = "ready" /\ call.op \in {"get", "filter"}) =>
        \A k \in 1..Len(parse_failed_paths) :
            ~HasRecord(lineage_objects, parse_failed_paths[k])

\* every supplied path is in the failed-list or has exactly one record,
\* never both
SuppliedPartition ==
    \A k \in 1..Len(supplied) :
        LET p        == supplied[k]
            isFailed == p \in SeqToSet(parse_failed_paths)
            records  == {i \in 1..Len(lineage_objects) :
                            lineage_objects[i].log_path = p}
        IN  /\ isFailed => records = {}
            /\ ~isFailed => Cardinality(records) = 1

\* a step that leaves a constructed Querier and in which no parse raised a
\* non-retryable error
RetryableOnlyStep == state' = "ready" /\ call'.exc \notin OtherErrors

\* C24: a construction, and a query on a Querier whose supplied paths are
\* each either in the failed-list or the path of exactly one record, leaves
\* a Querier of that kind when no parse raises a non-retryable error; the
\* query adds no path to the failed-list and only appends to the sequence
C24_NoPathLostOrInvented ==
    [][(RetryableOnlyStep /\ (state = "ready" => SuppliedPartition)) =>
          /\ SuppliedPartition'
          /\ state = "ready" =>
                /\ SeqToSet(parse_failed_paths')
                      \subseteq SeqToSet(parse_failed_paths)
                /\ IsPrefix(lineage_objects, lineage_objects')
      ]_vars

====
